---- MODULE Spec2Model ----
(***************************************************************************)
(* wa-agents: the per-user object store (case index, case manifests,       *)
(* message documents, dedup markers, lock leases), the DOBucketLock lease  *)
(* protocol and the CaseHandlerBase operations that read and write them.   *)
(*                                                                         *)
(* Every bucket request (head, get, put, list, delete) is one atomic step; *)
(* the local computation that follows a request belongs to the same step.  *)
(* Time is a single clock in seconds shared by the store and the clients.  *)
(* Calls that overlap may read the same clock value; a call that starts    *)
(* after an ingest has returned reads a later one.                         *)
(*                                                                         *)
(* The SQLite queue (QueueDB) and the worker loop (QueueWorker) are        *)
(* modelled at statement level, with the write lock of the database file.  *)
(* The job table of the worker, user_data_lookup, context_build with       *)
(* context_update, and chunk_text each have a specification of their own.  *)
(***************************************************************************)
EXTENDS Integers, Sequences, FiniteSets, TLC

(* ----------------------------- bounds --------------------------------- *)
MaxTime == 60
TickStep == 10
MaxWiths == 4

(* ------------------------ program constants --------------------------- *)
TTL == 30
LOCK_TIMEOUT == 10

Handlers == {"h1", "h2"}

NoKey == <<"none", 0>>

\* inbound WhatsApp messages (id, timestamp in seconds, type); a redelivery
\* carries the same id, timestamp and type
WaMsgs ==
    { [id |-> "wamid.A", ts |-> 0, kind |-> "text"],
      [id |-> "wamid.B", ts |-> 0, kind |-> "text"] }

NoWa == [id |-> "none", ts |-> 0, kind |-> "none"]

NoTime == -1
NoIndex == -1
NullCase == 0

NoManifest ==
    [case_id |-> 0, status |-> "none", time_opened |-> NoTime,
     time_last_message |-> NoTime, time_closed |-> NoTime, message_ids |-> <<>>]

\* a message without media descriptor
NoMedia == [name |-> <<NoTime, "none">>, sha256 |-> "none"]

NoMsg ==
    [id |-> <<NoTime, "none">>, basemodel |-> "none", idempotency_key |-> "none",
     time_created |-> NoTime, time_received |-> NoTime, media |-> NoMedia]

VARIABLES
    now,        \* the clock, in seconds
    leases,     \* <user>/locks/<token>.json : set of [key, lm]
    pc,         \* position of each handler
    lock,       \* the DOBucketLock instance of each handler
    index,      \* <user>/case_index.json : NoIndex, NullCase or a case id
    manifests,  \* <user>/cases/<c>/case_manifest.json, by case id
    messages,   \* <user>/cases/<c>/messages/<id>.json, by <<c, id>>
    dedup,      \* <user>/dedup/<key>.json : set of keys
    hs,         \* in-memory state of each handler
    calls,      \* number of handler calls started
    rows,       \* table incoming_queue, in order of the AUTOINCREMENT id
    dbLock,     \* the connection that holds the write lock of the database
    wk,         \* position and locals of each queue worker
    enq,        \* the last enqueue call: its payload and what it returned
    arg,        \* argument of a function applied on its own
    ret,        \* value returned by the last such application
    handled,    \* inbound message ids a worker's handler has processed
    user_data,  \* <user>/user_data.json : NoUserData or the names it holds
    jobs,       \* the job table and the response passes of each worker
    media       \* <user>/cases/<c>/media/<name>, by <<c, name>> : the bytes stored

store == <<index, manifests, messages, dedup>>

\* what the queue and the functions applied on their own leave alone
xvars == <<handled, user_data, jobs, media>>

qvars == <<rows, dbLock, wk, enq, arg, ret, handled, user_data, jobs, media>>

vars == <<now, leases, pc, lock, index, manifests, messages, dedup, hs, calls,
          rows, dbLock, wk, enq, arg, ret, handled, user_data, jobs, media>>

(* ------------------------- DOBucketLock ------------------------------- *)

\* no lock instance
NoLock ==
    [key |-> NoKey, created |-> 0, start |-> 0, acquired |-> FALSE,
     victim |-> NoKey, inside |-> FALSE, entered |-> 0,
     body |-> "none", after |-> "none", exc |-> "none"]

\* S3 lists keys in lexicographic order; min() keeps the first minimum.
KeyBefore(k1, k2) ==
    \/ k1[1] = "h1" /\ k2[1] = "h2"
    \/ k1[1] = k2[1] /\ k1[2] < k2[2]

\* a winner rule that prefers the newest lease
EarliestNewest(objs) ==
    CHOOSE o \in objs :
        \A p \in objs \ {o} :
            \/ o.lm > p.lm
            \/ o.lm = p.lm /\ KeyBefore(o.key, p.key)

\* min( objs, key = LastModified ) over a listing in key order
Earliest(objs) ==
    CHOOSE o \in objs :
        \A p \in objs \ {o} :
            \/ o.lm < p.lm
            \/ o.lm = p.lm /\ KeyBefore(o.key, p.key)

\* a cleanup that takes a lease for stale after the lock timeout
IsStaleEarly(obj) == (now - obj.lm) > LOCK_TIMEOUT

IsStale(obj) == (now - obj.lm) > (TTL + 1)

\* an acquisition loop without the timeout of step 4
TimedOutNever(h) == FALSE

TimedOut(h) == (now - lock[h].start) > LOCK_TIMEOUT

\* step 3 and 4 of the acquisition loop on a listing objs
Decide(h, objs) ==
    IF objs # {} /\ Earliest(objs).key = lock[h].key
    THEN /\ lock' = [lock EXCEPT ![h].acquired = TRUE, ![h].inside = TRUE,
                                 ![h].entered = now]
         /\ pc' = [pc EXCEPT ![h] = lock[h].body]
    ELSE IF TimedOut(h)
    THEN /\ pc' = [pc EXCEPT ![h] = "raised"]
         /\ lock' = [lock EXCEPT ![h].exc = "TimeoutError"]
    ELSE /\ pc[h] # "lk_list"
         /\ pc' = [pc EXCEPT ![h] = "lk_list"]
         /\ UNCHANGED lock

\* uuid4: a token no lease carries and no contender remembers
FreshKey(h) ==
    LET used == {o.key : o \in leases} \cup {lock[g].victim : g \in Handlers}
        n == CHOOSE k \in 1..(Cardinality(used) + 1) :
                 /\ <<h, k>> \notin used
                 /\ \A j \in 1..(k - 1) : <<h, j>> \in used
    IN <<h, n>>

\* DOBucketLock(prefix) followed by the lease put of __enter__
LockEnterPut(h, body, after) ==
    /\ LET key == FreshKey(h) IN
       /\ leases' = leases \cup {[key |-> key, lm |-> now]}
       /\ lock' = [lock EXCEPT ![h] =
                     [key |-> key, created |-> now,
                      start |-> now, acquired |-> FALSE, victim |-> NoKey,
                      inside |-> FALSE, entered |-> 0,
                      body |-> body, after |-> after, exc |-> "none"]]
    /\ pc' = [pc EXCEPT ![h] = "lk_list"]
    /\ UNCHANGED <<now, store, hs>>

\* one pass of the loop: list, stale check, winner, timeout
LockEnterList(h) ==
    /\ pc[h] = "lk_list"
    /\ IF leases # {} /\ IsStale(Earliest(leases))
       THEN /\ lock' = [lock EXCEPT ![h].victim = Earliest(leases).key]
            /\ pc' = [pc EXCEPT ![h] = "lk_evict"]
       ELSE Decide(h, leases)
    /\ UNCHANGED <<now, leases, store, hs, calls>>
    /\ UNCHANGED qvars

\* b3_delete( earliest["Key"] )
LockEnterEvict(h) ==
    /\ pc[h] = "lk_evict"
    /\ leases' = {o \in leases : o.key # lock[h].victim}
    /\ pc' = [pc EXCEPT ![h] = "lk_relist"]
    /\ lock' = [lock EXCEPT ![h].victim = NoKey]
    /\ UNCHANGED <<now, store, hs, calls>>
    /\ UNCHANGED qvars

\* re-list after cleanup, then winner and timeout
LockEnterRelist(h) ==
    /\ pc[h] = "lk_relist"
    /\ Decide(h, leases)
    /\ UNCHANGED <<now, leases, store, hs, calls>>
    /\ UNCHANGED qvars

\* __exit__: only an owner deletes its token
LockRelease(h) ==
    leases' = IF lock[h].acquired
              THEN {o \in leases : o.key # lock[h].key}
              ELSE leases

\* the end of a bare with-block
LockExit(h) ==
    /\ pc[h] = "lk_exit"
    /\ lock[h].after = "ended"
    /\ LockRelease(h)
    /\ pc' = [pc EXCEPT ![h] = IF lock[h].exc = "none" THEN lock[h].after
                                ELSE "raised"]
    /\ lock' = [lock EXCEPT ![h].inside = FALSE]
    /\ UNCHANGED <<now, store, hs, calls>>
    /\ UNCHANGED qvars

(* ---------------- a bare `with DOBucketLock(prefix)` block ------------ *)

With(h) ==
    /\ pc[h] = "idle"
    /\ calls < MaxWiths
    /\ calls' = calls + 1
    /\ LockEnterPut(h, "cs", "ended")
    /\ UNCHANGED qvars

CsWork(h) ==
    /\ pc[h] = "cs"
    /\ pc' = [pc EXCEPT ![h] = "lk_exit"]
    /\ UNCHANGED <<now, leases, lock, store, hs, calls>>
    /\ UNCHANGED qvars

CsRaise(h) ==
    /\ pc[h] = "cs"
    /\ pc' = [pc EXCEPT ![h] = "lk_exit"]
    /\ lock' = [lock EXCEPT ![h].exc = "BodyError"]
    /\ UNCHANGED <<now, leases, store, hs, calls>>
    /\ UNCHANGED qvars

\* the caller sees the block end and may start another one
Again(h) ==
    /\ pc[h] \in {"ended", "raised"}
    /\ pc' = [pc EXCEPT ![h] = "idle"]
    /\ lock' = [lock EXCEPT ![h] = NoLock]
    /\ UNCHANGED <<now, leases, store, hs, calls>>
    /\ UNCHANGED qvars

Tick ==
    /\ now + TickStep <= MaxTime
    /\ now' = now + TickStep
    /\ UNCHANGED <<leases, pc, lock, store, hs, calls>>
    /\ UNCHANGED qvars

\* CaseHandlerBase.__init__: nothing decided, nothing loaded
NewHandler ==
    [case_id |-> 0, case_manifest |-> NoManifest, storage_case_id |-> 0,
     wa |-> NoWa, manifest |-> NoManifest, msg |-> NoMsg, listed |-> FALSE,
     wrote |-> FALSE, user_name |-> "", names |-> <<>>]

\* the queue workers (one process each) and a worker at the top of its loop
Workers == {"w1", "w2"}

NoRow == 0

NoPayload == [entry |-> <<>>]

\* next: position in the payload of the message the worker handles next
IdleWorker ==
    [pc |-> "idle", row_id |-> NoRow, payload |-> NoPayload, next |-> 1,
     claimed |-> {}]

\* no enqueue call yet
NoEnqueue == [payload |-> NoPayload, returned |-> FALSE]

NoArg == {}
NoRet == 0

\* user_data.json does not exist
NoUserData == [exists |-> FALSE, names |-> <<>>]

\* the (operator, user) pairs that jobs are kept for
JobUsers == {"u1", "u2"}

\* QueueWorker.__init__ and the top of serve_forever: an empty JobTimeDict
\* (td, in insertion order), no batch of due jobs, no handler running
NewWorker ==
    [pc |-> "payload", td |-> <<>>, batch |-> <<>>, running |-> FALSE, ran |-> {},
     stop |-> FALSE]

\* what has happened to a user so far: the time of the last ingest that
\* asked for a response, whether it came less than RESPONSE_DELAY after the
\* one before, the response passes started since (counted up to 2), and the
\* time the first of them started
NewUser == [ingested |-> NoTime, burst |-> FALSE, passes |-> 0, started |-> NoTime]

NoJobs ==
    [worker |-> [w \in Workers |-> NewWorker],
     user |-> [u \in JobUsers |-> NewUser],
     broken |-> {},
     ingests |-> 0]

\* an empty bucket prefix for the user, an empty queue, idle processes
InitStore ==
    /\ now = 0
    /\ leases = {}
    /\ pc = [h \in Handlers |-> "idle"]
    /\ lock = [h \in Handlers |-> NoLock]
    /\ index = NoIndex
    /\ manifests = <<>>
    /\ messages = <<>>
    /\ dedup = {}
    /\ hs = [h \in Handlers |-> NewHandler]
    /\ calls = 0
    /\ rows = <<>>
    /\ dbLock = "none"
    /\ wk = [w \in Workers |-> IdleWorker]
    /\ enq = NoEnqueue
    /\ handled = {}
    /\ user_data = NoUserData
    /\ media = <<>>
    /\ jobs = NoJobs

Init ==
    /\ InitStore
    /\ arg = NoArg
    /\ ret = NoRet

NextLock ==
    \/ \E h \in Handlers : With(h)
    \/ \E h \in Handlers : LockEnterList(h)
    \/ \E h \in Handlers : LockEnterEvict(h)
    \/ \E h \in Handlers : LockEnterRelist(h)
    \/ \E h \in Handlers : CsWork(h)
    \/ \E h \in Handlers : CsRaise(h)
    \/ \E h \in Handlers : LockExit(h)
    \/ \E h \in Handlers : Again(h)
    \/ Tick

SpecLock == Init /\ [][NextLock]_vars

\* the requests of the acquisition loop of contender h
EnterStep(h) == LockEnterList(h) \/ LockEnterEvict(h) \/ LockEnterRelist(h)

\* every bucket request of __enter__ returns, and time.sleep( poll ) ends
SpecLockFair ==
    /\ SpecLock
    /\ \A h \in Handlers : WF_vars(EnterStep(h))
    /\ WF_vars(Tick)

(* ------------------------- DOBucketStorage ---------------------------- *)

\* a manifest_write that stores nothing
PutManifestNowhere(c, m) == manifests

\* b3_put_json at cases/<c>/case_manifest.json
PutManifest(c, m) == (c :> m) @@ manifests

\* b3_put_json at cases/<c>/messages/<id>.json
PutMessage(c, m) == (<<c, m.id>> :> m) @@ messages

\* b3_list_directories( <user>/cases ): a directory is a common key prefix
CaseDirs == (DOMAIN manifests) \cup {k[1] : k \in DOMAIN messages}

SetMax(S) == CHOOSE x \in S : \A y \in S : y <= x

\* a dedup_write that stores the marker under another name
DedupWriteElsewhere(key) == dedup \cup {"processed"}

\* dedup_write: b3_put_json at dedup/<key>.json
DedupWrite(key) == dedup \cup {key}

\* dedup_exists: head of dedup/<key>.json
DedupExists(key) == key \in dedup

\* A directory name is a sequence of characters: 0..9 are the decimal
\* digits, larger numbers stand for any other character.

\* str( case_id ) in set_case_id: the decimal digits of a case id
RECURSIVE StrOf(_)
StrOf(n) == IF n < 10 THEN <<n>> ELSE Append(StrOf(n \div 10), n % 10)

\* case_dir_str.isdigit()
IsDigit(name) == Len(name) > 0 /\ \A i \in 1..Len(name) : name[i] <= 9

\* int( case_dir_str )
RECURSIVE IntOf(_)
IntOf(name) ==
    IF Len(name) = 0 THEN 0
    ELSE 10 * IntOf(SubSeq(name, 1, Len(name) - 1)) + name[Len(name)]

\* the loop of get_next_case_id, from max_id over the names still to visit
RECURSIVE MaxId(_, _)
MaxId(case_dirs, max_id) ==
    IF case_dirs = {} THEN max_id
    ELSE LET case_dir_str == CHOOSE d \in case_dirs : TRUE IN
         MaxId(case_dirs \ {case_dir_str},
               IF IsDigit(case_dir_str) /\ IntOf(case_dir_str) > max_id
               THEN IntOf(case_dir_str)
               ELSE max_id)

\* the first positive integer that names no directory
get_first_free_case_id(case_dirs) ==
    CHOOSE n \in 1..(Cardinality(case_dirs) + 1) :
        /\ StrOf(n) \notin case_dirs
        /\ \A k \in 1..(n - 1) : StrOf(k) \in case_dirs

\* get_next_case_id on a listing of cases/
get_next_case_id(case_dirs) ==
    LET max_id == MaxId(case_dirs, 0) IN
    IF max_id > 0 THEN max_id + 1 ELSE 1

\* get_next_case_id on the current listing
NextCaseId == get_next_case_id({StrOf(c) : c \in CaseDirs})

\* Message.model_post_init: the id is time_received and the variant tag
MessageId(time_received, basemodel) == <<time_received, basemodel>>

\* msg_time.replace( microsecond = 0 ): the clock counts whole seconds
TruncSeconds(t) == t - (t % 1)

\* message.id in manifest.message_ids
IsListed(m, id) == \E i \in 1..Len(m.message_ids) : m.message_ids[i] = id

\* a manifest_append that appends without looking
ManifestAppendedBlindly(m, msg) ==
    [m EXCEPT !.message_ids = Append(m.message_ids, msg.id)]

\* manifest_append on the caller's in-memory manifest (before the write)
ManifestAppended(m, msg) ==
    LET ids == IF IsListed(m, msg.id)
               THEN m.message_ids
               ELSE Append(m.message_ids, msg.id)
        existing_last == m.time_last_message
        msg_time == IF msg.time_created # NoTime THEN msg.time_created
                    ELSE IF msg.time_received # NoTime THEN msg.time_received
                    ELSE now
        last == IF existing_last = NoTime \/ existing_last < msg_time
                THEN TruncSeconds(msg_time)
                ELSE existing_last
    IN [m EXCEPT !.message_ids = ids, !.time_last_message = last]

(* ------------------------- CaseHandlerBase ---------------------------- *)

TIME_LIMIT_STALE == 48

MaxCalls == 3

\* MediaData.from_content: a provisional name (that of the metaclass) and the
\* sha256 of the bytes (the bytes of an inbound message are named here by the
\* message's id)
from_content(content) == [name |-> <<NoTime, "ModelMetaclass">>, sha256 |-> content]

\* UserContentMsg.model_post_init: media.name = "<message id>.<extension>"
NamedAfter(id, media_data) ==
    IF media_data = NoMedia THEN NoMedia ELSE [media_data EXCEPT !.name = id]

\* the domain message dedup_and_ingest_message maps the inbound message to
UserMsgOf(wa) ==
    IF wa.kind \in {"text", "media"}
    THEN [id |-> MessageId(now, "UserContentMsg"),
          basemodel |-> "UserContentMsg", idempotency_key |-> wa.id,
          time_created |-> wa.ts, time_received |-> now,
          media |-> NamedAfter(MessageId(now, "UserContentMsg"),
                               IF wa.kind = "media" THEN from_content(wa.id)
                               ELSE NoMedia)]
    ELSE IF wa.kind = "interactive"
    THEN [id |-> MessageId(now, "UserInteractiveReplyMsg"),
          basemodel |-> "UserInteractiveReplyMsg", idempotency_key |-> wa.id,
          time_created |-> wa.ts, time_received |-> now, media |-> NoMedia]
    ELSE NoMsg

\* case_decide / case_open_new return (case_id, manifest) to the caller,
\* which builds the domain message and enters context_update
Decided(h, m) ==
    LET msg == UserMsgOf(hs[h].wa) IN
    IF msg = NoMsg
    THEN /\ hs' = [hs EXCEPT ![h].case_id = m.case_id, ![h].case_manifest = m,
                             ![h].manifest = NoManifest, ![h].wa = NoWa,
                             ![h].wrote = FALSE]
         /\ pc' = [pc EXCEPT ![h] = "idle"]
         /\ UNCHANGED now
    ELSE /\ hs' = [hs EXCEPT ![h].case_id = m.case_id, ![h].case_manifest = m,
                             ![h].manifest = NoManifest, ![h].msg = msg]
         /\ pc' = [pc EXCEPT ![h] = "cu_put"]
         /\ UNCHANGED now

\* dedup_and_ingest_message: the dedup check
IngestDedup(h, wa) ==
    /\ pc[h] = "idle"
    /\ calls < MaxCalls
    /\ calls' = calls + 1
    /\ IF DedupExists(wa.id)
       THEN UNCHANGED <<pc, hs>>
       ELSE /\ hs' = [hs EXCEPT ![h].wa = wa]
            /\ pc' = [pc EXCEPT ![h] = "cd_index"]
    /\ UNCHANGED <<now, leases, lock, store>>
    /\ UNCHANGED qvars

\* case_decide: read case_index.json
CaseDecideIndex(h) ==
    /\ pc[h] = "cd_index"
    /\ IF index \in {NoIndex, NullCase}
       THEN /\ pc' = [pc EXCEPT ![h] = "on_list"]
            /\ UNCHANGED hs
       ELSE /\ pc' = [pc EXCEPT ![h] = "cd_load"]
            /\ hs' = [hs EXCEPT ![h].storage_case_id = index]
    /\ UNCHANGED <<now, leases, lock, store, calls>>
    /\ UNCHANGED qvars

Stale(m) ==
    LET last == IF m.time_last_message # NoTime THEN m.time_last_message
                ELSE IF m.time_opened # NoTime THEN m.time_opened
                ELSE now
    IN (now - last) > TIME_LIMIT_STALE * 3600

\* case_decide: load the manifest of the indexed case and decide
CaseDecideLoad(h) ==
    /\ pc[h] = "cd_load"
    /\ hs[h].storage_case_id \in DOMAIN manifests
    /\ LET manifest == manifests[hs[h].storage_case_id] IN
       IF manifest.status # "open"
       THEN /\ pc' = [pc EXCEPT ![h] = "on_list"]
            /\ UNCHANGED <<now, hs>>
       ELSE IF Stale(manifest)
       THEN /\ pc' = [pc EXCEPT ![h] = "cd_timeout"]
            /\ hs' = [hs EXCEPT ![h].manifest =
                                  [manifest EXCEPT !.status = "timeout"]]
            /\ UNCHANGED now
       ELSE Decided(h, manifest)
    /\ UNCHANGED <<leases, lock, store, calls>>
    /\ UNCHANGED qvars

\* case_decide: write the stale manifest back with status timeout
CaseDecideTimeout(h) ==
    /\ pc[h] = "cd_timeout"
    /\ manifests' = PutManifest(hs[h].storage_case_id, hs[h].manifest)
    /\ pc' = [pc EXCEPT ![h] = "on_list"]
    /\ hs' = [hs EXCEPT ![h].wrote = TRUE]
    /\ UNCHANGED <<now, leases, lock, index, messages, dedup, calls>>
    /\ UNCHANGED qvars

\* case_open_new: get_next_case_id and the new CaseManifest
CaseOpenNewList(h) ==
    /\ pc[h] = "on_list"
    /\ hs' = [hs EXCEPT ![h].storage_case_id = NextCaseId,
                        ![h].manifest =
                            [case_id |-> NextCaseId, status |-> "open",
                             time_opened |-> now, time_last_message |-> NoTime,
                             time_closed |-> NoTime, message_ids |-> <<>>]]
    /\ pc' = [pc EXCEPT ![h] = "on_manifest"]
    /\ UNCHANGED <<now, leases, lock, store, calls>>
    /\ UNCHANGED qvars

\* case_open_new: manifest_write
CaseOpenNewManifest(h) ==
    /\ pc[h] = "on_manifest"
    /\ manifests' = PutManifest(hs[h].storage_case_id, hs[h].manifest)
    /\ pc' = [pc EXCEPT ![h] = "on_index"]
    /\ hs' = [hs EXCEPT ![h].wrote = TRUE]
    /\ UNCHANGED <<now, leases, lock, index, messages, dedup, calls>>
    /\ UNCHANGED qvars

\* case_open_new: case_set_open_case_id, then return
CaseOpenNewIndex(h) ==
    /\ pc[h] = "on_index"
    /\ index' = hs[h].storage_case_id
    /\ Decided(h, hs[h].manifest)
    /\ UNCHANGED <<leases, lock, manifests, messages, dedup, calls>>
    /\ UNCHANGED qvars

\* context_update: with self.storage_lock(self.user_root)
ContextUpdateLock(h) ==
    /\ pc[h] = "cu_put"
    /\ LockEnterPut(h, "cu_message", "return")
    /\ UNCHANGED calls
    /\ UNCHANGED qvars

\* context_update: message_write
ContextUpdateMessage(h) ==
    /\ pc[h] = "cu_message"
    /\ messages' = PutMessage(hs[h].storage_case_id, hs[h].msg)
    /\ pc' = [pc EXCEPT ![h] = "cu_manifest"]
    /\ UNCHANGED <<now, leases, lock, index, manifests, dedup, hs, calls>>
    /\ UNCHANGED qvars

\* context_update: manifest_append (in-memory update, then manifest_write)
ContextUpdateManifest(h) ==
    /\ pc[h] = "cu_manifest"
    /\ LET m == ManifestAppended(hs[h].case_manifest, hs[h].msg) IN
       /\ hs' = [hs EXCEPT ![h].case_manifest = m,
                           ![h].listed =
                               IsListed(hs[h].case_manifest, hs[h].msg.id)]
       /\ manifests' = PutManifest(hs[h].storage_case_id, m)
    /\ pc' = [pc EXCEPT ![h] = "cu_dedup"]
    /\ UNCHANGED <<now, leases, lock, index, messages, dedup, calls>>
    /\ UNCHANGED qvars

\* context_update: dedup_write of the idempotency key
ContextUpdateDedup(h) ==
    /\ pc[h] = "cu_dedup"
    /\ dedup' = DedupWrite(hs[h].msg.idempotency_key)
    /\ pc' = [pc EXCEPT ![h] = "lk_exit"]
    /\ UNCHANGED <<now, leases, lock, index, manifests, messages, hs, calls>>
    /\ UNCHANGED qvars

\* context_update: the with-block ends (__exit__), and
\* dedup_and_ingest_message returns the domain message
ContextUpdateExit(h) ==
    /\ pc[h] = "lk_exit"
    /\ lock[h].after = "return"
    /\ hs[h].msg.media = NoMedia
    /\ LockRelease(h)
    /\ hs' = [hs EXCEPT ![h].wa = NoWa, ![h].msg = NoMsg, ![h].listed = FALSE,
                        ![h].wrote = FALSE]
    /\ lock' = [lock EXCEPT ![h] = NoLock]
    /\ pc' = [pc EXCEPT ![h] = "idle"]
    /\ now' = now + 1      \* a later call reads a later clock
    /\ UNCHANGED <<store, calls>>
    /\ UNCHANGED qvars

\* context_update returns for a UserContentMsg with media: the with-block
\* ends, and dedup_and_ingest_message goes on to its second with-block
ContextUpdateExitMedia(h) ==
    /\ pc[h] = "lk_exit"
    /\ lock[h].after = "return"
    /\ hs[h].msg.media # NoMedia
    /\ LockRelease(h)
    /\ lock' = [lock EXCEPT ![h] = NoLock]
    /\ pc' = [pc EXCEPT ![h] = "mw_put"]
    /\ UNCHANGED <<now, store, hs, calls>>
    /\ UNCHANGED qvars

\* dedup_and_ingest_message: with self.storage_lock(self.user_root)
MediaWriteLock(h) ==
    /\ pc[h] = "mw_put"
    /\ LockEnterPut(h, "mw_write", "stored")
    /\ UNCHANGED calls
    /\ UNCHANGED qvars

\* media_write: b3_put_media unless an object exists at the media path
media_write(c, message, content) ==
    IF <<c, message.media.name>> \in DOMAIN media
    THEN media
    ELSE (<<c, message.media.name>> :> content) @@ media

MediaWrite(h) ==
    /\ pc[h] = "mw_write"
    /\ media' = media_write(hs[h].storage_case_id, hs[h].msg,
                            hs[h].msg.idempotency_key)
    /\ pc' = [pc EXCEPT ![h] = "lk_exit"]
    /\ UNCHANGED <<now, leases, lock, store, hs, calls>>
    /\ UNCHANGED <<rows, dbLock, wk, enq, arg, ret, handled, user_data, jobs>>

\* the second with-block ends, and dedup_and_ingest_message returns
MediaWriteExit(h) ==
    /\ pc[h] = "lk_exit"
    /\ lock[h].after = "stored"
    /\ LockRelease(h)
    /\ hs' = [hs EXCEPT ![h].wa = NoWa, ![h].msg = NoMsg, ![h].listed = FALSE,
                        ![h].wrote = FALSE]
    /\ lock' = [lock EXCEPT ![h] = NoLock]
    /\ pc' = [pc EXCEPT ![h] = "idle"]
    /\ now' = now + 1
    /\ UNCHANGED <<store, calls>>
    /\ UNCHANGED qvars

\* an exception (TimeoutError of the lock) ends the call
CallRaise(h) ==
    /\ pc[h] = "raised"
    /\ hs' = [hs EXCEPT ![h].wa = NoWa, ![h].msg = NoMsg, ![h].listed = FALSE,
                        ![h].wrote = FALSE]
    /\ lock' = [lock EXCEPT ![h] = NoLock]
    /\ pc' = [pc EXCEPT ![h] = "idle"]
    /\ UNCHANGED <<now, leases, store, calls>>
    /\ UNCHANGED qvars

\* case_mark_as_resolved: manifest_write of the in-memory manifest
MarkResolvedManifest(h) ==
    /\ pc[h] = "idle"
    /\ calls < MaxCalls
    /\ hs[h].case_manifest # NoManifest
    /\ calls' = calls + 1
    /\ LET m == [hs[h].case_manifest EXCEPT !.status = "resolved",
                                            !.time_closed = now] IN
       /\ hs' = [hs EXCEPT ![h].case_manifest = m]
       /\ manifests' = PutManifest(hs[h].storage_case_id, m)
    /\ pc' = [pc EXCEPT ![h] = "mr_index"]
    /\ UNCHANGED <<now, leases, lock, index, messages, dedup>>
    /\ UNCHANGED qvars

\* case_mark_as_resolved: case_set_open_case_id( None )
MarkResolvedIndex(h) ==
    /\ pc[h] = "mr_index"
    /\ index' = NullCase
    /\ pc' = [pc EXCEPT ![h] = "idle"]
    /\ UNCHANGED <<now, leases, lock, manifests, messages, dedup, hs, calls>>
    /\ UNCHANGED qvars

\* the worker drops the handler and builds a fresh one for the next payload
HandlerNew(h) ==
    /\ pc[h] = "idle"
    /\ hs[h] # NewHandler
    /\ hs' = [hs EXCEPT ![h] = NewHandler]
    /\ UNCHANGED <<now, leases, pc, lock, store, calls>>
    /\ UNCHANGED qvars

\* the user stays silent for longer than TIME_LIMIT_STALE hours while no
\* call is in progress
StaleStep == 172810
MaxSleep == 180000

Sleep ==
    /\ \A h \in Handlers : pc[h] = "idle"
    /\ now + StaleStep <= MaxSleep
    /\ now' = now + StaleStep
    /\ UNCHANGED <<leases, pc, lock, store, hs, calls>>
    /\ UNCHANGED qvars

\* a request or a process stalls for longer than ttl + 1 seconds while a
\* lease exists
StallStep == 40
MaxStall == 45

Stall ==
    /\ leases # {}
    /\ (now % StaleStep) + StallStep <= MaxStall
    /\ now' = now + StallStep
    /\ UNCHANGED <<leases, pc, lock, store, hs, calls>>
    /\ UNCHANGED qvars

Next ==
    \/ \E h \in Handlers, wa \in WaMsgs : IngestDedup(h, wa)
    \/ \E h \in Handlers : CaseDecideIndex(h)
    \/ \E h \in Handlers : CaseDecideLoad(h)
    \/ \E h \in Handlers : CaseDecideTimeout(h)
    \/ \E h \in Handlers : CaseOpenNewList(h)
    \/ \E h \in Handlers : CaseOpenNewManifest(h)
    \/ \E h \in Handlers : CaseOpenNewIndex(h)
    \/ \E h \in Handlers : ContextUpdateLock(h)
    \/ \E h \in Handlers : LockEnterList(h)
    \/ \E h \in Handlers : LockEnterEvict(h)
    \/ \E h \in Handlers : LockEnterRelist(h)
    \/ \E h \in Handlers : ContextUpdateMessage(h)
    \/ \E h \in Handlers : ContextUpdateManifest(h)
    \/ \E h \in Handlers : ContextUpdateDedup(h)
    \/ \E h \in Handlers : ContextUpdateExit(h)
    \/ \E h \in Handlers : CallRaise(h)
    \/ \E h \in Handlers : MarkResolvedManifest(h)
    \/ \E h \in Handlers : MarkResolvedIndex(h)
    \/ \E h \in Handlers : HandlerNew(h)
    \/ Sleep
    \/ Stall

Spec == Init /\ [][Next]_vars

\* the same handlers when calls never overlap: a call starts only after
\* every earlier call has returned
NextSeq ==
    \/ \E h \in Handlers, wa \in WaMsgs :
          (\A g \in Handlers : pc[g] = "idle") /\ IngestDedup(h, wa)
    \/ \E h \in Handlers : CaseDecideIndex(h)
    \/ \E h \in Handlers : CaseDecideLoad(h)
    \/ \E h \in Handlers : CaseDecideTimeout(h)
    \/ \E h \in Handlers : CaseOpenNewList(h)
    \/ \E h \in Handlers : CaseOpenNewManifest(h)
    \/ \E h \in Handlers : CaseOpenNewIndex(h)
    \/ \E h \in Handlers : ContextUpdateLock(h)
    \/ \E h \in Handlers : LockEnterList(h)
    \/ \E h \in Handlers : LockEnterEvict(h)
    \/ \E h \in Handlers : LockEnterRelist(h)
    \/ \E h \in Handlers : ContextUpdateMessage(h)
    \/ \E h \in Handlers : ContextUpdateManifest(h)
    \/ \E h \in Handlers : ContextUpdateDedup(h)
    \/ \E h \in Handlers : ContextUpdateExit(h)
    \/ \E h \in Handlers : CallRaise(h)
    \/ \E h \in Handlers :
          (\A g \in Handlers : pc[g] = "idle") /\ MarkResolvedManifest(h)
    \/ \E h \in Handlers : MarkResolvedIndex(h)
    \/ \E h \in Handlers : HandlerNew(h)
    \/ Sleep
    \/ Stall

SpecSeq == Init /\ [][NextSeq]_vars

\* inbound messages of every type: text, media (two attachments with
\* different bytes) and a reaction, which has neither text, media nor reply
InboundMsgs ==
    { [id |-> "wamid.A", ts |-> 0, kind |-> "text"],
      [id |-> "wamid.M", ts |-> 0, kind |-> "media"],
      [id |-> "wamid.N", ts |-> 0, kind |-> "media"],
      [id |-> "wamid.R", ts |-> 0, kind |-> "reaction"] }

\* calls that never overlap, for inbound messages of every type
NextKinds ==
    \/ \E h \in Handlers, wa \in InboundMsgs :
          (\A g \in Handlers : pc[g] = "idle") /\ IngestDedup(h, wa)
    \/ \E h \in Handlers : CaseDecideIndex(h)
    \/ \E h \in Handlers : CaseDecideLoad(h)
    \/ \E h \in Handlers : CaseDecideTimeout(h)
    \/ \E h \in Handlers : CaseOpenNewList(h)
    \/ \E h \in Handlers : CaseOpenNewManifest(h)
    \/ \E h \in Handlers : CaseOpenNewIndex(h)
    \/ \E h \in Handlers : ContextUpdateLock(h)
    \/ \E h \in Handlers : LockEnterList(h)
    \/ \E h \in Handlers : LockEnterEvict(h)
    \/ \E h \in Handlers : LockEnterRelist(h)
    \/ \E h \in Handlers : ContextUpdateMessage(h)
    \/ \E h \in Handlers : ContextUpdateManifest(h)
    \/ \E h \in Handlers : ContextUpdateDedup(h)
    \/ \E h \in Handlers : ContextUpdateExit(h)
    \/ \E h \in Handlers : ContextUpdateExitMedia(h)
    \/ \E h \in Handlers : MediaWriteLock(h)
    \/ \E h \in Handlers : MediaWrite(h)
    \/ \E h \in Handlers : MediaWriteExit(h)
    \/ \E h \in Handlers : CallRaise(h)
    \/ \E h \in Handlers : HandlerNew(h)
    \/ Sleep
    \/ Stall

SpecKinds == Init /\ [][NextKinds]_vars

(* ------------- user_data_lookup of the handler constructor ------------ *)

\* profile names a contact of the user may carry; "" is no name
UserNames == {"Ada", "Bob"}

InSeq(x, seq) == \E i \in 1..Len(seq) : seq[i] = x

\* user_data_lookup: json_read of user_data.json, UserData.from_phone_number
\* when there is none, and the append of a user name that is new
UserDataRead(h, name) ==
    /\ pc[h] = "idle"
    /\ calls < MaxCalls
    /\ calls' = calls + 1
    /\ LET names == IF user_data.exists THEN user_data.names ELSE <<>>
           is_new == name # "" /\ ~ InSeq(name, names)
           need_to_update == ~ user_data.exists \/ is_new
       IN /\ hs' = [hs EXCEPT ![h] =
                       [NewHandler EXCEPT
                           !.user_name = name,
                           !.names = IF is_new THEN Append(names, name) ELSE names]]
          /\ pc' = [pc EXCEPT ![h] = IF need_to_update THEN "ud_put" ELSE "idle"]
    /\ UNCHANGED <<now, leases, lock, store>>
    /\ UNCHANGED qvars

\* user_data_lookup: with self.storage_lock(self.user_root)
UserDataLock(h) ==
    /\ pc[h] = "ud_put"
    /\ LockEnterPut(h, "ud_write", "constructed")
    /\ UNCHANGED calls
    /\ UNCHANGED qvars

\* user_data_lookup: json_write( p, self.user_data.model_dump() )
UserDataWrite(h) ==
    /\ pc[h] = "ud_write"
    /\ user_data' = [exists |-> TRUE, names |-> hs[h].names]
    /\ pc' = [pc EXCEPT ![h] = "lk_exit"]
    /\ UNCHANGED <<now, leases, lock, store, hs, calls>>
    /\ UNCHANGED <<rows, dbLock, wk, enq, arg, ret, handled, jobs, media>>

\* user_data_lookup: the with-block ends and the constructor returns
UserDataExit(h) ==
    /\ pc[h] = "lk_exit"
    /\ lock[h].after = "constructed"
    /\ LockRelease(h)
    /\ lock' = [lock EXCEPT ![h] = NoLock]
    /\ pc' = [pc EXCEPT ![h] = "idle"]
    /\ UNCHANGED <<now, store, hs, calls>>
    /\ UNCHANGED qvars

NextUser ==
    \/ \E h \in Handlers, name \in UserNames \cup {""} : UserDataRead(h, name)
    \/ \E h \in Handlers : UserDataLock(h)
    \/ \E h \in Handlers : LockEnterList(h)
    \/ \E h \in Handlers : LockEnterEvict(h)
    \/ \E h \in Handlers : LockEnterRelist(h)
    \/ \E h \in Handlers : UserDataWrite(h)
    \/ \E h \in Handlers : UserDataExit(h)
    \/ \E h \in Handlers : CallRaise(h)
    \/ Stall

SpecUser == Init /\ [][NextUser]_vars

(* ------------------- get_next_case_id on its own ---------------------- *)

\* length of the longest directory name and the characters tried
MaxNameLen == 2
Chars == {0, 2, 10}

Names == UNION {[1..n -> Chars] : n \in 1..MaxNameLen}

\* listings of cases/ with at most MaxDirs directories
MaxDirs == 3

\* some object is put under cases/<name>/ : the listing gains a directory
MakeDir(name) ==
    /\ ret = NoRet
    /\ name \notin arg
    /\ Cardinality(arg) < MaxDirs
    /\ arg' = arg \cup {name}
    /\ UNCHANGED <<now, leases, pc, lock, store, hs, calls, rows, dbLock, wk, enq, ret>>
    /\ UNCHANGED xvars

GetNextCaseId ==
    /\ ret = NoRet
    /\ ret' = get_next_case_id(arg)
    /\ UNCHANGED <<now, leases, pc, lock, store, hs, calls, rows, dbLock, wk, enq, arg>>
    /\ UNCHANGED xvars

NextDirs ==
    \/ \E name \in Names : MakeDir(name)
    \/ GetNextCaseId

SpecDirs == Init /\ [][NextDirs]_vars

(* ------------------- the job table of QueueWorker --------------------- *)

RESPONSE_DELAY == 1

\* ingests that ask for a response, and the last second of the clock
MaxIngests == 2
MaxJobTime == 3

JobIndex(td, u) == {i \in 1..Len(td) : td[i].job = u}

\* self._job_td[job] = t : a known key keeps its place in the dict
SetDue(td, u, t) ==
    IF JobIndex(td, u) # {}
    THEN [i \in 1..Len(td) |-> IF td[i].job = u THEN [job |-> u, due |-> t] ELSE td[i]]
    ELSE Append(td, [job |-> u, due |-> t])

RECURSIVE Without(_, _)

\* JobTimeDict.mark_as_done: self.pop( job, None )
Without(td, u) ==
    IF td = <<>> THEN <<>>
    ELSE IF Head(td).job = u THEN Without(Tail(td), u)
    ELSE <<Head(td)>> \o Without(Tail(td), u)

RECURSIVE DueAt(_, _)

\* JobTimeDict.get_due_now: the jobs with job_response_time < time.time()
DueAt(td, t) ==
    IF td = <<>> THEN <<>>
    ELSE IF Head(td).due < t THEN <<Head(td).job>> \o DueAt(Tail(td), t)
    ELSE DueAt(Tail(td), t)

\* _process_payload: no row to claim, or no message that asks for a response
PayloadNone(w) ==
    /\ jobs.worker[w].pc = "payload"
    /\ jobs' = [jobs EXCEPT !.worker[w].pc = "due"]
    /\ UNCHANGED <<now, leases, pc, lock, store, hs, calls, rows, dbLock, wk, enq,
                   arg, ret, handled, user_data, media>>

\* _process_payload: the messages of user u in the claimed payload are
\* ingested, respond is set, and the job of u is (re)scheduled
PayloadRespond(w, u) ==
    /\ jobs.worker[w].pc = "payload"
    /\ jobs.ingests < MaxIngests
    /\ now + RESPONSE_DELAY < MaxJobTime      \* the job can become due
    /\ jobs' = [jobs EXCEPT
                  !.worker[w].pc = "due",
                  !.worker[w].td = SetDue(jobs.worker[w].td, u, now + RESPONSE_DELAY),
                  !.user[u] = [ingested |-> now,
                               burst |-> /\ jobs.user[u].ingested # NoTime
                                         /\ now - jobs.user[u].ingested < RESPONSE_DELAY,
                               passes |-> 0,
                               started |-> NoTime],
                  !.ingests = jobs.ingests + 1]
    /\ UNCHANGED <<now, leases, pc, lock, store, hs, calls, rows, dbLock, wk, enq,
                   arg, ret, handled, user_data, media>>

\* serve_forever: self._job_td.get_due_now(); _process_jobs of an empty list
\* does nothing
GetDueNow(w) ==
    /\ jobs.worker[w].pc = "due"
    /\ LET batch == DueAt(jobs.worker[w].td, now) IN
       jobs' = [jobs EXCEPT
                  !.worker[w].batch = batch,
                  !.worker[w].ran = {},
                  !.worker[w].pc = IF batch = <<>> THEN "sleep" ELSE "jobs"]
    /\ UNCHANGED <<now, leases, pc, lock, store, hs, calls, rows, dbLock, wk, enq,
                   arg, ret, handled, user_data, media>>

\* the history of user u after a call of generate_response by a handler that
\* is fresh (first call of a pass) or not
Called(w, u) ==
    IF jobs.worker[w].running
    THEN jobs.user[u]
    ELSE [jobs.user[u] EXCEPT
             !.passes = IF jobs.user[u].passes < 2 THEN jobs.user[u].passes + 1 ELSE 2,
             !.started = IF jobs.user[u].passes = 0 THEN now ELSE jobs.user[u].started]

\* _process_jobs: handler.generate_response returns true, the loop goes on
GenerateTrue(w) ==
    /\ jobs.worker[w].pc = "jobs"
    /\ LET u == Head(jobs.worker[w].batch) IN
       /\ u \notin jobs.broken
       /\ jobs' = [jobs EXCEPT !.worker[w].running = TRUE,
                               !.worker[w].ran = jobs.worker[w].ran \cup {u},
                               !.user[u] = Called(w, u)]
    /\ UNCHANGED <<now, leases, pc, lock, store, hs, calls, rows, dbLock, wk, enq,
                   arg, ret, handled, user_data, media>>

\* _process_jobs: handler.generate_response returns false, the job is
\* marked as done and the loop goes to the next job of the batch
GenerateFalse(w) ==
    /\ jobs.worker[w].pc = "jobs"
    /\ LET u == Head(jobs.worker[w].batch)
           rest == Tail(jobs.worker[w].batch)
       IN /\ u \notin jobs.broken
          /\ jobs' = [jobs EXCEPT
                        !.worker[w].running = FALSE,
                        !.worker[w].ran = jobs.worker[w].ran \cup {u},
                        !.worker[w].td = Without(jobs.worker[w].td, u),
                        !.worker[w].batch = rest,
                        !.worker[w].pc = IF rest = <<>> THEN "sleep" ELSE "jobs",
                        !.user[u] = Called(w, u)]
    /\ UNCHANGED <<now, leases, pc, lock, store, hs, calls, rows, dbLock, wk, enq,
                   arg, ret, handled, user_data, media>>

\* _process_jobs: the handler raises; except Exception logs the batch and
\* the function returns, no job of the batch is marked as done
GenerateRaise(w) ==
    /\ jobs.worker[w].pc = "jobs"
    /\ LET u == Head(jobs.worker[w].batch) IN
       /\ u \in jobs.broken
       /\ jobs' = [jobs EXCEPT
                     !.worker[w].running = FALSE,
                     !.worker[w].ran = jobs.worker[w].ran \cup {u},
                     !.worker[w].batch = <<>>,
                     !.worker[w].pc = "sleep",
                     !.user[u] = Called(w, u)]
    /\ UNCHANGED <<now, leases, pc, lock, store, hs, calls, rows, dbLock, wk, enq,
                   arg, ret, handled, user_data, media>>

\* a loop that sleeps and iterates again without a look at the stop flag
WorkerSleepOn(w) ==
    /\ jobs.worker[w].pc = "sleep"
    /\ jobs' = [jobs EXCEPT !.worker[w].pc = "payload"]
    /\ UNCHANGED <<now, leases, pc, lock, store, hs, calls, rows, dbLock, wk, enq,
                   arg, ret, handled, user_data, media>>

\* serve_forever: time.sleep of the poll interval, then the loop test
\* `while not self._stop_flag`: the next iteration, or the return
WorkerSleep(w) ==
    /\ jobs.worker[w].pc = "sleep"
    /\ jobs' = [jobs EXCEPT !.worker[w].pc =
                   IF jobs.worker[w].stop THEN "stopped" ELSE "payload"]
    /\ UNCHANGED <<now, leases, pc, lock, store, hs, calls, rows, dbLock, wk, enq,
                   arg, ret, handled, user_data, media>>

\* from now on the handler of user u raises in generate_response (its case
\* cannot be loaded, or the provider rejects its context)
Break(u) ==
    /\ u \notin jobs.broken
    /\ jobs' = [jobs EXCEPT !.broken = jobs.broken \cup {u}]
    /\ UNCHANGED <<now, leases, pc, lock, store, hs, calls, rows, dbLock, wk, enq,
                   arg, ret, handled, user_data, media>>

\* a second passes
Second ==
    /\ now < MaxJobTime
    /\ now' = now + 1
    /\ UNCHANGED <<leases, pc, lock, store, hs, calls>>
    /\ UNCHANGED qvars

\* one step of the loop of worker w
WorkerStep(w) ==
    \/ PayloadNone(w)
    \/ \E u \in JobUsers : PayloadRespond(w, u)
    \/ GetDueNow(w)
    \/ GenerateTrue(w)
    \/ GenerateFalse(w)
    \/ GenerateRaise(w)
    \/ WorkerSleep(w)

NextJobs ==
    \/ \E w \in Workers : PayloadNone(w)
    \/ \E w \in Workers, u \in JobUsers : PayloadRespond(w, u)
    \/ \E w \in Workers : GetDueNow(w)
    \/ \E w \in Workers : GenerateTrue(w)
    \/ \E w \in Workers : GenerateFalse(w)
    \/ \E w \in Workers : GenerateRaise(w)
    \/ \E w \in Workers : WorkerSleep(w)
    \/ \E u \in JobUsers : Break(u)
    \/ Second

SpecJobs == Init /\ [][NextJobs]_vars

\* stop(): the signal handler sets the stop flag of worker w
Stop(w) ==
    /\ ~ jobs.worker[w].stop
    /\ jobs' = [jobs EXCEPT !.worker[w].stop = TRUE]
    /\ UNCHANGED <<now, leases, pc, lock, store, hs, calls, rows, dbLock, wk, enq,
                   arg, ret, handled, user_data, media>>

\* the response pass of the handler at the head of the batch ends
EndPass(w) == GenerateFalse(w) \/ GenerateRaise(w)

\* the worker process that receives the signal; a worker shares neither its
\* stop flag nor its job table with another process
Signalled == {"w1"}

NextStop ==
    \/ \E w \in Signalled : PayloadNone(w)
    \/ \E w \in Signalled, u \in JobUsers : PayloadRespond(w, u)
    \/ \E w \in Signalled : GetDueNow(w)
    \/ \E w \in Signalled : GenerateTrue(w)
    \/ \E w \in Signalled : GenerateFalse(w)
    \/ \E w \in Signalled : GenerateRaise(w)
    \/ \E w \in Signalled : WorkerSleep(w)
    \/ \E w \in Signalled : Stop(w)
    \/ \E u \in JobUsers : Break(u)
    \/ Second

\* a worker that can be stopped: every call of the loop returns, every
\* time.sleep ends, and a handler does not ask for another response forever
SpecStop ==
    /\ Init /\ [][NextStop]_vars
    /\ \A w \in Signalled : WF_vars(WorkerStep(w))
    /\ \A w \in Signalled : WF_vars(EndPass(w))

\* the worker is not stopped and keeps iterating, and the clock advances
SpecJobsFair ==
    /\ SpecJobs
    /\ \A w \in Workers : WF_vars(WorkerStep(w))
    /\ WF_vars(Second)

(* ---------------- call_openai_chat_completion on its own -------------- *)

\* longest transcript tried
MaxEntries == 2

\* transcript entries, with the fields the request assembly reads: text ("" is
\* no text), the mime type of the media ("none" is no media), the ids of
\* the tool calls, st_output, and the ids of the tool results
TranscriptEntries ==
    { [basemodel |-> "UserContentMsg", text |-> "text", media |-> "none",
       tool_calls |-> <<>>, st_output |-> FALSE, tool_results |-> <<>>],
      [basemodel |-> "UserContentMsg", text |-> "", media |-> "image/png",
       tool_calls |-> <<>>, st_output |-> FALSE, tool_results |-> <<>>],
      [basemodel |-> "UserInteractiveReplyMsg", text |-> "", media |-> "none",
       tool_calls |-> <<>>, st_output |-> FALSE, tool_results |-> <<>>],
      [basemodel |-> "ServerTextMsg", text |-> "text", media |-> "none",
       tool_calls |-> <<>>, st_output |-> FALSE, tool_results |-> <<>>],
      [basemodel |-> "ServerInteractiveOptsMsg", text |-> "", media |-> "none",
       tool_calls |-> <<>>, st_output |-> FALSE, tool_results |-> <<>>],
      [basemodel |-> "AssistantMsg", text |-> "text", media |-> "none",
       tool_calls |-> <<>>, st_output |-> FALSE, tool_results |-> <<>>],
      [basemodel |-> "AssistantMsg", text |-> "", media |-> "none",
       tool_calls |-> <<"call.1", "call.2">>, st_output |-> FALSE,
       tool_results |-> <<>>],
      [basemodel |-> "AssistantMsg", text |-> "text", media |-> "none",
       tool_calls |-> <<"call.1">>, st_output |-> FALSE, tool_results |-> <<>>],
      [basemodel |-> "AssistantMsg", text |-> "", media |-> "none",
       tool_calls |-> <<>>, st_output |-> TRUE, tool_results |-> <<>>],
      [basemodel |-> "ToolResultsMsg", text |-> "", media |-> "none",
       tool_calls |-> <<>>, st_output |-> FALSE,
       tool_results |-> <<"call.1", "call.2">>] }

\* the class hierarchy of basemodels.py
IsBasicMsg(e) ==
    e.basemodel \in {"UserContentMsg", "UserInteractiveReplyMsg",
                     "ServerTextMsg", "AssistantMsg"}

IsStructuredDataMsg(e) ==
    e.basemodel \in {"UserInteractiveReplyMsg", "ServerInteractiveOptsMsg"}

\* the property `role` of each class
RoleOf(e) ==
    IF e.basemodel = "AssistantMsg" THEN "assistant"
    ELSE IF e.basemodel = "ToolResultsMsg" THEN "tool"
    ELSE "user"

NoBlocks == [form |-> "none", blocks |-> <<>>]

\* the first request message of a BasicMsg: text and/or media blocks
BasicRequest(e, a) ==
    LET text ==
            IF e.text # ""
            THEN <<[type |-> "text", text |-> e.text]>>
            ELSE IF IsStructuredDataMsg(e)
            THEN <<[type |-> "text", text |-> "as_text"]>>
            ELSE IF e.basemodel = "AssistantMsg" /\ e.st_output
            THEN <<[type |-> "text", text |-> "st_output"]>>
            ELSE <<>>
        image ==
            IF e.basemodel = "UserContentMsg" /\ e.media # "none"
            THEN IF a.imgs
                 THEN <<[type |-> "image_url", text |-> e.media]>>
                 ELSE <<[type |-> "text", text |-> "[SYSTEM] User sent media"]>>
            ELSE <<>>
        blocks == text \o image
    IN [role |-> RoleOf(e),
        content |-> IF a.openrouter /\ Len(blocks) = 1 /\ blocks[1].type = "text"
                    THEN [form |-> "string", blocks |-> blocks]
                    ELSE [form |-> "list", blocks |-> blocks],
        tool_calls |-> <<>>, tool_call_id |-> "none"]

\* the single assistant message with all tool calls
ToolCallsRequest(e, a) ==
    [role |-> "assistant",
     content |-> IF a.openrouter THEN [form |-> "string", blocks |-> <<>>]
                 ELSE NoBlocks,
     tool_calls |-> e.tool_calls, tool_call_id |-> "none"]

\* one tool message per tool result
ToolRequests(e) ==
    [i \in 1..Len(e.tool_results) |->
        [role |-> "tool", content |-> [form |-> "string", blocks |-> <<>>],
         tool_calls |-> <<>>, tool_call_id |-> e.tool_results[i]]]

\* the body of `for message in context`
RequestOf(e, a) ==
    IF IsBasicMsg(e)
    THEN <<BasicRequest(e, a)>> \o
         (IF e.basemodel = "AssistantMsg" /\ e.tool_calls # <<>>
          THEN <<ToolCallsRequest(e, a)>> ELSE <<>>)
    ELSE IF e.basemodel = "ToolResultsMsg" /\ e.tool_results # <<>>
    THEN ToolRequests(e)
    ELSE <<>>

RECURSIVE RequestsOf(_, _)

RequestsOf(context, a) ==
    IF context = <<>> THEN <<>>
    ELSE RequestOf(Head(context), a) \o RequestsOf(Tail(context), a)

SystemRequest ==
    [role |-> "system", content |-> [form |-> "string", blocks |-> <<>>],
     tool_calls |-> <<>>, tool_call_id |-> "none"]

\* the list `messages` of the request
call_openai_chat_completion(a) ==
    (IF a.prompts THEN <<SystemRequest>> ELSE <<>>) \o RequestsOf(a.context, a)

Contexts == UNION {[1..n -> TranscriptEntries] : n \in 0..MaxEntries}

\* a call: the transcript, api = "openrouter" or not, prompts_merged set or
\* not, and whether images are loaded (load_imgs with every image cached)
InitRequest ==
    /\ InitStore
    /\ arg \in {[context |-> c, openrouter |-> o, prompts |-> p, imgs |-> i,
                  applied |-> FALSE] :
                    c \in Contexts, o \in BOOLEAN, p \in BOOLEAN, i \in BOOLEAN}
    /\ ret = <<>>

CallOpenAI ==
    /\ ~ arg.applied
    /\ ret' = call_openai_chat_completion(arg)
    /\ arg' = [arg EXCEPT !.applied = TRUE]
    /\ UNCHANGED <<now, leases, pc, lock, store, hs, calls, rows, dbLock, wk, enq>>
    /\ UNCHANGED xvars

NextRequest == CallOpenAI

SpecRequest == InitRequest /\ [][NextRequest]_vars

(* ------------------------ chunk_text on its own ----------------------- *)

\* longest text tried, greatest max_len tried, and the characters of a text
MaxTextLen == 7
MaxChunk == 3
TextChars == {"a", "b"}

RECURSIVE chunk_text(_, _)

\* a chunk_text that halves the text once and does not recurse
chunk_text_halved_once(text, max_len) ==
    IF Len(text) <= max_len
    THEN <<text>>
    ELSE <<SubSeq(text, 1, Len(text) \div 2),
           SubSeq(text, Len(text) \div 2 + 1, Len(text))>>

\* chunk_text: the list of chunks, in order
chunk_text(text, max_len) ==
    IF Len(text) <= max_len
    THEN <<text>>
    ELSE LET i_mid == Len(text) \div 2 IN
         chunk_text(SubSeq(text, 1, i_mid), max_len)
             \o chunk_text(SubSeq(text, i_mid + 1, Len(text)), max_len)

\* no text typed, chunk_text not applied
NoText == [text |-> <<>>, max_len |-> 0, applied |-> FALSE]

InitChunk ==
    /\ InitStore
    /\ arg = NoText
    /\ ret = <<>>

\* the text to send grows by one character
TypeChar(c) ==
    /\ ~ arg.applied
    /\ Len(arg.text) < MaxTextLen
    /\ arg' = [arg EXCEPT !.text = Append(arg.text, c)]
    /\ UNCHANGED <<now, leases, pc, lock, store, hs, calls, rows, dbLock, wk, enq, ret>>
    /\ UNCHANGED xvars

\* send_whatsapp_text: chunks = chunk_text( text ), with a positive max_len
ChunkText(max_len) ==
    /\ ~ arg.applied
    /\ arg' = [arg EXCEPT !.max_len = max_len, !.applied = TRUE]
    /\ ret' = chunk_text(arg.text, max_len)
    /\ UNCHANGED <<now, leases, pc, lock, store, hs, calls, rows, dbLock, wk, enq>>
    /\ UNCHANGED xvars

NextChunk ==
    \/ \E c \in TextChars : TypeChar(c)
    \/ \E max_len \in 1..MaxChunk : ChunkText(max_len)

SpecChunk == InitChunk /\ [][NextChunk]_vars

(* ------------- context_build and context_update on their own --------- *)

MAX_CONTEXT_LEN == 20

\* longest message_ids list tried
MaxListed == 22

\* how the times of the listed messages run along message_ids, and which
\* of the listed messages cannot be read
Patterns == 1..4
Gaps == 0..2

\* subclasses of Message that the module basemodels defines
KnownModels == {"UserContentMsg", "UserInteractiveReplyMsg", "AssistantMsg"}

TimeCreatedOf(p, i, n) ==
    CASE p = 1 -> i
      [] p = 2 -> n - i
      [] p = 3 -> i % 2
      [] p = 4 -> (i * 7) % 5

TimeReceivedOf(p, i, n) ==
    CASE p = 1 -> i
      [] p = 2 -> i
      [] p = 3 -> n - i
      [] p = 4 -> (i * 3) % 4

\* the message document stored for the i-th listed id
DocOf(p, g, i, n) ==
    [id |-> <<i, "UserContentMsg">>,
     basemodel |-> IF g = 2 /\ i = 3 THEN "RetiredMsg" ELSE "UserContentMsg",
     idempotency_key |-> "none",
     time_created |-> TimeCreatedOf(p, i, n),
     time_received |-> TimeReceivedOf(p, i, n)]

\* a case with n listed ids; with g = 1 the third document is missing, with
\* g = 2 the third document carries a tag that basemodels does not define
\* and the fifth is missing
CaseOf(n, p, g, truncate) ==
    [message_ids |-> [i \in 1..n |-> <<i, "UserContentMsg">>],
     docs |-> [id \in {<<i, "UserContentMsg">> :
                          i \in {j \in 1..n : ~ (g = 1 /\ j = 3) /\ ~ (g = 2 /\ j = 5)}}
                  |-> DocOf(p, g, id[1], n)],
     truncate |-> truncate,
     stage |-> "listed",
     message |-> NoMsg]

\* storage.message_read: None for a missing document or an unknown tag
message_read(docs, msg_id) ==
    IF msg_id \notin DOMAIN docs THEN NoMsg
    ELSE IF docs[msg_id].basemodel \notin KnownModels THEN NoMsg
    ELSE docs[msg_id]

\* the sort key ( time_created, time_received ), compared as tuples
KeyLE(a, b) ==
    \/ a.time_created < b.time_created
    \/ a.time_created = b.time_created /\ a.time_received <= b.time_received

RECURSIVE ReadAll(_, _)

\* context_build: the loop over message_ids
ReadAll(docs, ids) ==
    IF ids = <<>> THEN <<>>
    ELSE LET message == message_read(docs, Head(ids)) IN
         IF message # NoMsg
         THEN <<message>> \o ReadAll(docs, Tail(ids))
         ELSE ReadAll(docs, Tail(ids))

\* m placed behind the last element of a sorted list whose key is not
\* greater than the key of m
Insert(sorted, m) ==
    LET k == Cardinality({i \in 1..Len(sorted) : KeyLE(sorted[i], m)}) IN
    SubSeq(sorted, 1, k) \o <<m>> \o SubSeq(sorted, k + 1, Len(sorted))

RECURSIVE Sorted(_)

\* a context left in the order of message_ids
Unsorted(context) == context

\* list.sort( key = ... ): ascending and stable
Sorted(context) ==
    IF context = <<>> THEN <<>>
    ELSE Insert(Sorted(SubSeq(context, 1, Len(context) - 1)),
                context[Len(context)])

\* case_context[ -MAX_CONTEXT_LEN : ] when truncate is set and the list is longer
Truncated(context, truncate) ==
    IF truncate /\ Len(context) > MAX_CONTEXT_LEN
    THEN SubSeq(context, Len(context) - MAX_CONTEXT_LEN + 1, Len(context))
    ELSE context

context_build(docs, ids, truncate) == Truncated(Sorted(ReadAll(docs, ids)), truncate)

InitContext ==
    /\ InitStore
    /\ arg \in {CaseOf(n, p, g, t) :
                   n \in 0..MaxListed, p \in Patterns, g \in Gaps, t \in BOOLEAN}
    /\ ret = <<>>

\* context_build for the decided case
ContextBuild ==
    /\ arg.stage = "listed"
    /\ ret' = context_build(arg.docs, arg.message_ids, arg.truncate)
    /\ arg' = [arg EXCEPT !.stage = "built"]
    /\ UNCHANGED <<now, leases, pc, lock, store, hs, calls, rows, dbLock, wk, enq>>
    /\ UNCHANGED xvars

\* the messages a handler may add to a built context: one older and one
\* newer than every listed message
NewMessages ==
    {[id |-> <<MaxListed + 2, "AssistantMsg">>, basemodel |-> "AssistantMsg",
      idempotency_key |-> "none", time_created |-> t, time_received |-> t] :
        t \in {0, MaxListed + 2}}

\* context_update( message ) by the handler that built the context, alone:
\* message_write, manifest_append, then the append to case_context
ContextUpdate(message) ==
    /\ arg.stage = "built"
    /\ arg' = [arg EXCEPT
                 !.docs = [id \in DOMAIN arg.docs \cup {message.id} |->
                              IF id = message.id THEN message ELSE arg.docs[id]],
                 !.message_ids = Append(arg.message_ids, message.id),
                 !.stage = "updated",
                 !.message = message]
    /\ ret' = IF ret # <<>> THEN Append(ret, message) ELSE ret
    /\ UNCHANGED <<now, leases, pc, lock, store, hs, calls, rows, dbLock, wk, enq>>
    /\ UNCHANGED xvars

NextContext ==
    \/ ContextBuild
    \/ \E message \in NewMessages : ContextUpdate(message)

SpecContext == InitContext /\ [][NextContext]_vars

(* ------------------------ QueueDB and QueueWorker --------------------- *)

WaA == CHOOSE wa \in WaMsgs : wa.id = "wamid.A"
WaB == CHOOSE wa \in WaMsgs : wa.id = "wamid.B"

\* webhook payloads of one contact: one with two inbound messages and one
\* with a single message
Payloads == {[entry |-> <<WaA, WaB>>], [entry |-> <<WaB>>]}

\* payload.model_dump_json( by_alias = True ): the JSON text of a payload
DumpJson(p) ==
    <<"object",
      [i \in 1..Len(p.entry) |-> <<p.entry[i].id, p.entry[i].ts, p.entry[i].kind>>]>>

\* WhatsAppPayload.model_validate_json( row["payload"] )
ValidateJson(text) ==
    [entry |-> [i \in 1..Len(text[2]) |->
                   [id |-> text[2][i][1], ts |-> text[2][i][2],
                    kind |-> text[2][i][3]]]]

\* exceptions the handling of a payload may raise, with their str()
Exceptions ==
    { [type |-> "TimeoutError", str |-> "Lock timeout for prefix"],
      [type |-> "AttributeError", str |-> "no attribute"] }

NoError == "NULL"

\* a table without the unique index on payload
HasPayloadNever(text) == FALSE

\* ON CONFLICT (payload): the unique index idx_incoming_queue_payload
HasPayload(text) == \E i \in 1..Len(rows) : rows[i].payload = text

\* a transaction that starts without taking the write lock
CanBeginDeferred(w) == TRUE

\* BEGIN IMMEDIATE (and every single write statement) waits until no other
\* connection holds the write lock of the database file
CanBegin(w) == dbLock = "none"

\* enqueue: INSERT ... ON CONFLICT (payload) DO NOTHING; total_changes > 0
Enqueue(p) ==
    /\ CanBegin("webhook")
    /\ IF HasPayload(DumpJson(p))
       THEN /\ rows' = rows
            /\ enq' = [payload |-> p, returned |-> FALSE]
       ELSE /\ rows' = Append(rows, [payload |-> DumpJson(p),
                                     status |-> "pending",
                                     created_at |-> now,
                                     last_error |-> NoError])
            /\ enq' = [payload |-> p, returned |-> TRUE]
    /\ UNCHANGED <<now, leases, pc, lock, store, hs, calls, dbLock, wk, arg, ret>>
    /\ UNCHANGED xvars

\* enqueue: sqlite3.Error (the database stayed locked) gives False
EnqueueError(p) ==
    /\ ~ CanBegin("webhook")
    /\ enq' = [payload |-> p, returned |-> FALSE]
    /\ UNCHANGED <<now, leases, pc, lock, store, hs, calls, rows, dbLock, wk,
                   arg, ret>>
    /\ UNCHANGED xvars

\* claim_next: BEGIN IMMEDIATE
ClaimBegin(w) ==
    /\ wk[w].pc = "idle"
    /\ CanBegin(w)
    /\ dbLock' = w
    /\ wk' = [wk EXCEPT ![w].pc = "cl_select"]
    /\ UNCHANGED <<now, leases, pc, lock, store, hs, calls, rows, enq, arg, ret>>
    /\ UNCHANGED xvars

\* rows a claim_next that retried failed rows would select from
PendingOrError == {i \in 1..Len(rows) : rows[i].status \in {"pending", "error"}}

\* WHERE status = 'pending'
Pending == {i \in 1..Len(rows) : rows[i].status = "pending"}

\* ORDER BY created_at ASC LIMIT 1: any pending row of least created_at
Oldest == {i \in Pending : \A j \in Pending : rows[i].created_at <= rows[j].created_at}

\* claim_next: SELECT; without a row COMMIT and return None
ClaimSelect(w) ==
    /\ wk[w].pc = "cl_select"
    /\ IF Pending = {}
       THEN /\ wk' = [wk EXCEPT ![w].pc = "idle"]
            /\ dbLock' = IF dbLock = w THEN "none" ELSE dbLock
       ELSE /\ \E i \in Oldest :
                  wk' = [wk EXCEPT ![w].pc = "cl_update", ![w].row_id = i]
            /\ UNCHANGED dbLock
    /\ UNCHANGED <<now, leases, pc, lock, store, hs, calls, rows, enq, arg, ret>>
    /\ UNCHANGED xvars

\* claim_next: UPDATE ... SET status = 'processing', last_error = NULL
ClaimUpdate(w) ==
    /\ wk[w].pc = "cl_update"
    /\ rows' = [rows EXCEPT ![wk[w].row_id].status = "processing",
                            ![wk[w].row_id].last_error = NoError]
    /\ wk' = [wk EXCEPT ![w].pc = "cl_commit"]
    /\ UNCHANGED <<now, leases, pc, lock, store, hs, calls, dbLock, enq, arg, ret>>
    /\ UNCHANGED xvars

\* claim_next: COMMIT and return { row_id, payload }
ClaimCommit(w) ==
    /\ wk[w].pc = "cl_commit"
    /\ dbLock' = IF dbLock = w THEN "none" ELSE dbLock
    /\ wk' = [wk EXCEPT ![w].pc = "handle",
                        ![w].payload = ValidateJson(rows[wk[w].row_id].payload),
                        ![w].next = 1,
                        ![w].claimed = wk[w].claimed \cup {wk[w].row_id}]
    /\ UNCHANGED <<now, leases, pc, lock, store, hs, calls, rows, enq, arg, ret>>
    /\ UNCHANGED xvars

\* a mark_error that records nothing
MarkErrorLost(row_id, error_msg) == rows

\* mark_error: UPDATE ... SET status = 'error', last_error = ?
MarkError(row_id, error_msg) ==
    [rows EXCEPT ![row_id].status = "error", ![row_id].last_error = error_msg]

\* mark_done: UPDATE ... SET status = 'done'
MarkDone(row_id) == [rows EXCEPT ![row_id].status = "done"]

\* _process_payload: handler.process_msg_human( msg, media_content ) returns
\* for the next message of the payload
ProcessMessage(w) ==
    /\ wk[w].pc = "handle"
    /\ wk[w].next <= Len(wk[w].payload.entry)
    /\ handled' = handled \cup {wk[w].payload.entry[wk[w].next].id}
    /\ wk' = [wk EXCEPT ![w].next = wk[w].next + 1]
    /\ UNCHANGED <<now, leases, pc, lock, store, hs, calls, rows, dbLock, enq,
                   arg, ret, user_data, jobs, media>>

\* _process_payload: every message is handled and the row is marked done
ProcessDone(w) ==
    /\ wk[w].pc = "handle"
    /\ wk[w].next > Len(wk[w].payload.entry)
    /\ CanBegin(w)
    /\ rows' = MarkDone(wk[w].row_id)
    /\ wk' = [wk EXCEPT ![w].pc = "idle", ![w].row_id = NoRow,
                        ![w].payload = NoPayload, ![w].next = 1]
    /\ UNCHANGED <<now, leases, pc, lock, store, hs, calls, dbLock, enq, arg, ret>>
    /\ UNCHANGED xvars

\* _process_payload: except Exception as ex: mark_error( row_id, str(ex) )
ProcessError(w, ex) ==
    /\ wk[w].pc = "handle"
    /\ CanBegin(w)
    /\ rows' = MarkError(wk[w].row_id, ex.str)
    /\ wk' = [wk EXCEPT ![w].pc = "idle", ![w].row_id = NoRow,
                        ![w].payload = NoPayload, ![w].next = 1]
    /\ UNCHANGED <<now, leases, pc, lock, store, hs, calls, dbLock, enq, arg, ret>>
    /\ UNCHANGED xvars

NextQueue ==
    \/ \E p \in Payloads : Enqueue(p)
    \/ \E p \in Payloads : EnqueueError(p)
    \/ \E w \in Workers : ClaimBegin(w)
    \/ \E w \in Workers : ClaimSelect(w)
    \/ \E w \in Workers : ClaimUpdate(w)
    \/ \E w \in Workers : ClaimCommit(w)
    \/ \E w \in Workers : ProcessMessage(w)
    \/ \E w \in Workers : ProcessDone(w)
    \/ \E w \in Workers, ex \in Exceptions : ProcessError(w, ex)
    \/ Tick

SpecQueue == Init /\ [][NextQueue]_vars

(* ===================== properties of the lock ======================== *)

Holders == {h \in Handlers : lock[h].inside}

LeaseAge(h) == now - lock[h].created

\* C3 (as claimed): while no holder has been inside its critical section
\* for more than ttl + 1 seconds, at most one contender of the prefix is
\* between a successful __enter__ and its __exit__.
C3_MutexWhileShortHold ==
    (\A h \in Holders : now - lock[h].entered <= TTL + 1)
        => Cardinality(Holders) <= 1

\* C3 (amended): two contenders are inside together only if their leases
\* carry the same LastModified stamp or one of the leases is older than
\* ttl + 1 seconds, the age counted from the write of the lease.
C3_MutexDistinctFreshLeases ==
    \A h1, h2 \in Holders :
        h1 # h2 =>
            \/ lock[h1].created = lock[h2].created
            \/ LeaseAge(h1) > TTL + 1
            \/ LeaseAge(h2) > TTL + 1

\* a holder is inside while a later contender polls behind it
C3_Witness ==
    \E h1, h2 \in Handlers :
        /\ h1 # h2
        /\ lock[h1].inside
        /\ pc[h2] = "lk_list"
        /\ lock[h2].created > lock[h1].created
        /\ LeaseAge(h1) <= TTL + 1
        /\ \E o \in leases : o.key = lock[h2].key

\* C4 (as claimed): once a with-block has ended, normally, by an exception
\* of the body or by TimeoutError, the contender's lease no longer exists.
C4_NoLeaseAfterWith ==
    \A h \in Handlers :
        pc[h] \in {"ended", "raised"} =>
            ~ \E o \in leases : o.key = lock[h].key

(* =================== properties of the case store ==================== *)

OpenCases == {c \in DOMAIN manifests : manifests[c].status = "open"}

Quiescent == \A h \in Handlers : pc[h] = "idle"

\* C1 (as claimed): at most one stored case manifest of the user has
\* status open, in every reachable state.
C1_AtMostOneOpen == Cardinality(OpenCases) <= 1

\* the stored message documents that carry idempotency key k
DocsOf(k) == {d \in DOMAIN messages : messages[d].idempotency_key = k}

\* number of positions of message_ids of case c that hold id
Listed(c, id) ==
    IF c \in DOMAIN manifests
    THEN Cardinality({i \in 1..Len(manifests[c].message_ids) :
                         manifests[c].message_ids[i] = id})
    ELSE 0

\* C2 (as claimed): once the ingests of two different inbound messages have
\* both succeeded (both dedup markers written, every call returned), the
\* manifest of the case lists the id of each of the two messages exactly once.
C2_BothIdsListed ==
    (Quiescent /\ (\A wa \in WaMsgs : wa.id \in dedup)) =>
        \A wa \in WaMsgs :
            \E d \in DocsOf(wa.id) : Listed(d[1], d[2]) = 1

\* C5 (as claimed): a stored manifest with status resolved or timeout is
\* never rewritten with status open.
C5_ClosedStaysClosed ==
    [][\A c \in DOMAIN manifests :
          manifests[c].status \in {"resolved", "timeout"}
              => manifests'[c].status # "open"]_vars

\* C6 (as claimed): case_index.open_case_id is absent, null, or the id of a
\* case whose stored manifest has status open, in every reachable state.
C6_IndexNamesOpenCase ==
    \/ index \in {NoIndex, NullCase}
    \/ index \in DOMAIN manifests /\ manifests[index].status = "open"

\* C7 (as claimed): every case whose stored manifest has status open is the
\* case named by case_index.open_case_id, in every reachable state.
C7_OpenCaseIsIndexed == \A c \in OpenCases : index = c

\* C8: a dedup_and_ingest_message call for an inbound message whose id an
\* earlier, completed call has ingested returns None at once and leaves the
\* store as it was: exactly one domain message carries that id, and no
\* document, manifest entry, case or marker is added.
C8_SecondIngestIsNoOp ==
    [][\A h \in Handlers, wa \in WaMsgs :
          (IngestDedup(h, wa) /\ DocsOf(wa.id) # {}) =>
              /\ pc'[h] = "idle"
              /\ hs' = hs
              /\ UNCHANGED <<index, manifests, messages, dedup, leases>>
              /\ Cardinality(DocsOf(wa.id)) = 1]_vars

\* the second of two calls was a repeated ingest: one message was built,
\* no lock timed out, and the store holds what the first call left
C8_Witness ==
    /\ calls = 2
    /\ Quiescent
    /\ now = 1
    /\ DOMAIN manifests = {1}
    /\ manifests[1].status = "open"
    /\ Len(manifests[1].message_ids) = 1
    /\ Cardinality(DOMAIN messages) = 1
    /\ Cardinality(dedup) = 1
    /\ index = 1

\* C9 (as claimed): at most one domain message with a given idempotency key
\* is persisted and listed in a manifest of the user.
C9_OneMessagePerKey ==
    \A wa \in WaMsgs :
        Cardinality({d \in DocsOf(wa.id) : Listed(d[1], d[2]) >= 1}) <= 1

\* C10 (as claimed): every stored message document cases/<c>/messages/<id>
\* has its id listed in exactly one manifest of the user, that of case c.
C10_StoredMessageListedOnce ==
    \A d \in DOMAIN messages :
        /\ Listed(d[1], d[2]) = 1
        /\ \A c \in DOMAIN manifests : c # d[1] => Listed(c, d[2]) = 0

\* no position of a list of ids repeats an earlier one
NoRepeat(ids) == \A i, j \in 1..Len(ids) : i # j => ids[i] # ids[j]

C12_DocumentsNeverChange ==
    [][\A d \in DOMAIN messages :
          d \in DOMAIN messages' /\ messages'[d] = messages[d]]_vars

\* the times (created and received) of the stored messages a manifest lists
ListedTimes(c) ==
    UNION {{messages[d].time_created, messages[d].time_received} :
              d \in {e \in DOMAIN messages : e[1] = c /\ Listed(c, e[2]) >= 1}}

\* C13 (as claimed): time_last_message of a stored manifest is the maximum
\* of time_created and time_received over the messages the manifest lists,
\* in whole seconds, and null when it lists none.
C13_LastMessageIsMax ==
    \A c \in DOMAIN manifests :
        manifests[c].time_last_message =
            IF manifests[c].message_ids = <<>> THEN NoTime
            ELSE IF ListedTimes(c) = {} THEN manifests[c].time_last_message
            ELSE TruncSeconds(SetMax(ListedTimes(c)))

\* the last activity of a stored case: its opening or the latest creation or
\* reception of a message it lists
LastActivity(c) == SetMax({manifests[c].time_opened} \cup ListedTimes(c))

\* C14 (as claimed): when case_decide finds the indexed case open, it marks
\* the case as timed out (and goes on to open a new case) if the last
\* activity of the case is more than TIME_LIMIT_STALE hours old, and returns
\* the existing case, creating none, if it is at most that old.
C14_TimeoutIffStale ==
    [][\A h \in Handlers :
          LET c == hs[h].storage_case_id IN
          (CaseDecideLoad(h) /\ manifests[c].status = "open") =>
              IF now - LastActivity(c) > TIME_LIMIT_STALE * 3600
              THEN /\ pc'[h] = "cd_timeout"
                   /\ hs'[h].manifest.status = "timeout"
              ELSE /\ pc'[h] = "cu_put"
                   /\ hs'[h].case_id = c
                   /\ manifests' = manifests]_vars

\* C15 (as claimed): case_open_new writes its manifest under a case id that
\* no stored case carries, so it never replaces the manifest of an existing
\* case.
C15_NewCaseGetsNewId ==
    [][\A h \in Handlers :
          CaseOpenNewManifest(h) =>
              hs[h].storage_case_id \notin DOMAIN manifests]_vars

\* the numbers that the digit-only names of a listing denote
Numeric(case_dirs) == {IntOf(d) : d \in {x \in case_dirs : IsDigit(x)}}

C17_WritesUnderLock ==
    [][(index' # index \/ manifests' # manifests \/ messages' # messages) =>
          \E h \in Handlers : lock[h].inside /\ pc'[h] # pc[h]]_vars

(* ====================== properties of the queue ====================== *)

\* C18: under any interleaving of claim_next calls no row is returned to two
\* callers, and a row is moved to processing only from pending and is
\* returned to a caller only once.
C18_ClaimNextIsAtomic ==
    [][/\ \A w1, w2 \in Workers :
             w1 # w2 => wk'[w1].claimed \cap wk'[w2].claimed = {}
       /\ \A w \in Workers :
             ClaimUpdate(w) => rows[wk[w].row_id].status = "pending"
       /\ \A w \in Workers :
             ClaimCommit(w) => wk[w].row_id \notin wk[w].claimed]_vars

\* a worker is inside the transaction of claim_next on a pending row while
\* the other worker, which has claimed a row before, is about to call it
C18_Witness ==
    \E w1, w2 \in Workers :
        /\ w1 # w2
        /\ wk[w1].pc = "cl_update"
        /\ dbLock = w1
        /\ wk[w2].pc = "idle"
        /\ wk[w2].claimed # {}

\* number of rows of a table that hold a JSON text
CountPayload(table, text) ==
    Cardinality({i \in 1..Len(table) : table[i].payload = text})

\* C19: enqueue returns true iff it inserted a (pending) row; it inserts
\* nothing and returns false when the JSON text of the payload is already in
\* the table, so the text of a payload that was enqueued twice is in one row.
C19_EnqueueTrueIffInserted ==
    [][\A p \in Payloads :
          (Enqueue(p) \/ EnqueueError(p)) =>
              /\ enq'.payload = p
              /\ (enq'.returned = TRUE) <=>
                     /\ Len(rows') = Len(rows) + 1
                     /\ SubSeq(rows', 1, Len(rows)) = rows
                     /\ rows'[Len(rows')].payload = DumpJson(p)
                     /\ rows'[Len(rows')].status = "pending"
              /\ (enq'.returned = FALSE) => rows' = rows
              /\ HasPayload(DumpJson(p)) =>
                     (rows' = rows /\ enq'.returned = FALSE)
              /\ CountPayload(rows', DumpJson(p)) <= 1
              /\ Enqueue(p) => CountPayload(rows', DumpJson(p)) = 1]_vars

\* the payload of the only row, still pending and never claimed, has been
\* enqueued again and the call returned false
C19_Witness ==
    /\ Len(rows) = 1
    /\ rows[1].status = "pending"
    /\ DumpJson(enq.payload) = rows[1].payload
    /\ enq.returned = FALSE
    /\ dbLock = "none"
    /\ \A w \in Workers : wk[w] = IdleWorker

C21_FailedPayloadLeavesNothing ==
    [][\A w \in Workers, ex \in Exceptions :
          ProcessError(w, ex) =>
              \A i \in 1..Len(wk[w].payload.entry) :
                  wk[w].payload.entry[i].id \notin handled']_vars

\* C22: the status of a row only moves pending -> processing -> done or
\* error: a done or error row keeps its status, no row returns to pending,
\* and claim_next takes and returns only a row that was pending.
C22_StatusOnlyMovesForward ==
    [][/\ Len(rows') >= Len(rows)
       /\ \A i \in 1..Len(rows) :
             rows'[i].status # rows[i].status =>
                 <<rows[i].status, rows'[i].status>> \in
                     { <<"pending", "processing">>, <<"processing", "done">>,
                       <<"processing", "error">> }
       /\ \A i \in (1..Len(rows')) \ (1..Len(rows)) : rows'[i].status = "pending"
       /\ \A w \in Workers :
             ClaimSelect(w) =>
                 (wk'[w].row_id # NoRow => rows[wk'[w].row_id].status = "pending")
       /\ \A w \in Workers :
             ClaimUpdate(w) => rows[wk[w].row_id].status = "pending"]_vars

\* claim_next runs while one row is in error and another is pending, and
\* it has selected the pending one
C22_Witness ==
    \E w \in Workers, i, j \in 1..Len(rows) :
        /\ wk[w].pc = "cl_update"
        /\ wk[w].row_id = j
        /\ rows[i].status = "error"
        /\ rows[j].status = "pending"

\* C28 (as claimed): in every reachable state, the states inside
\* context_update included, a dedup marker that exists has a stored message
\* document with its idempotency key whose id is listed in the stored
\* manifest of the case of the document.
C28_MarkerImpliesListedMessage ==
    \A k \in dedup : \E d \in DocsOf(k) : Listed(d[1], d[2]) >= 1

\* C29 (as claimed): case_decide never marks as timeout an open case that
\* was opened less than TIME_LIMIT_STALE hours ago, whatever the times of
\* the messages appended to it.
C29_YoungCaseNeverTimesOut ==
    [][\A h \in Handlers :
          LET c == hs[h].storage_case_id IN
          ( /\ CaseDecideLoad(h)
            /\ manifests[c].status = "open"
            /\ manifests[c].time_opened # NoTime
            /\ now - manifests[c].time_opened < TIME_LIMIT_STALE * 3600 ) =>
              pc'[h] # "cd_timeout"]_vars

(* ==================== properties of chunk_text ====================== *)

RECURSIVE Concat(_)

\* the concatenation of a list of chunks
Concat(chunks) ==
    IF chunks = <<>> THEN <<>> ELSE Head(chunks) \o Concat(Tail(chunks))

\* C27: for a positive max_len, chunk_text returns chunks of at most max_len
\* characters whose concatenation is the text; a text of at most max_len
\* characters gives one chunk, a text of 2 * max_len + 1 characters three.
C27_ChunksCoverText ==
    arg.applied =>
        /\ \A i \in 1..Len(ret) : Len(ret[i]) <= arg.max_len
        /\ Concat(ret) = arg.text
        /\ Len(arg.text) <= arg.max_len => ret = <<arg.text>>
        /\ Len(arg.text) = 2 * arg.max_len + 1 => Len(ret) = 3

\* a text of 2 * max_len + 1 characters, not all the same, has been chunked
C27_Witness ==
    /\ arg.applied
    /\ arg.max_len >= 2
    /\ Len(arg.text) = 2 * arg.max_len + 1
    /\ \E i, j \in 1..Len(arg.text) : arg.text[i] # arg.text[j]
    /\ Len(ret) = 3

(* ================= properties of the in-memory context =============== *)

\* the listed messages that message_read returns
Readable == {message_read(arg.docs, arg.message_ids[i]) :
                 i \in 1..Len(arg.message_ids)} \ {NoMsg}

Min(a, b) == IF a <= b THEN a ELSE b

\* C25: context_build( truncate = True ) leaves in case_context only listed
\* messages that can be read, each at most once, in ascending order of
\* ( time_created, time_received ) whatever the order of message_ids, and
\* as many as there are, up to MAX_CONTEXT_LEN: then those with the greatest
\* keys; messages that are missing or carry an unknown tag are left out.
C25_ContextIsSortedTail ==
    (arg.stage = "built" /\ arg.truncate) =>
        /\ \A i \in 1..Len(ret) : ret[i] \in Readable
        /\ \A i, j \in 1..Len(ret) : i < j => ret[i] # ret[j] /\ KeyLE(ret[i], ret[j])
        /\ Len(ret) = Min(MAX_CONTEXT_LEN, Cardinality(Readable))
        /\ \A m \in Readable :
              (\A i \in 1..Len(ret) : ret[i] # m) =>
                  \A i \in 1..Len(ret) : KeyLE(m, ret[i])

\* a context was built from more than MAX_CONTEXT_LEN readable messages,
\* listed out of order, next to messages that cannot be read
C25_Witness ==
    /\ arg.stage = "built"
    /\ arg.truncate
    /\ Cardinality(Readable) > MAX_CONTEXT_LEN
    /\ Cardinality(Readable) < Len(arg.message_ids)
    /\ Len(ret) = MAX_CONTEXT_LEN
    /\ \E i, j \in 1..Len(arg.message_ids) :
          /\ i < j
          /\ arg.message_ids[i] \in DOMAIN arg.docs
          /\ arg.message_ids[j] \in DOMAIN arg.docs
          /\ ~ KeyLE(arg.docs[arg.message_ids[i]], arg.docs[arg.message_ids[j]])

\* C30 (as claimed): after context_build and then context_update( m ), m is
\* the last element of case_context, also when the context was built from
\* a case without messages.
C30_AppendedIsLast ==
    arg.stage = "updated" => (ret # <<>> /\ ret[Len(ret)] = arg.message)

(* ===================== properties of the user data =================== *)

\* C26 (as claimed): under any interleaving of handler constructions for
\* one user, a write of user_data.json keeps every name the stored list
\* held before it, and the stored list holds no name twice.
C26_NamesOnlyGrow ==
    [][user_data.exists =>
          /\ user_data'.exists
          /\ \A i \in 1..Len(user_data.names) :
                InSeq(user_data.names[i], user_data'.names)
          /\ \A i, j \in 1..Len(user_data'.names) :
                i # j => user_data'.names[i] # user_data'.names[j]]_vars

(* ===================== properties of the job table =================== *)

\* C23 (as claimed): when an ingest of a user that asks for a response comes
\* less than RESPONSE_DELAY after the one before, at most one response pass
\* for the user is started after it, and that pass starts no earlier than
\* RESPONSE_DELAY after it.
C23_BurstGetsOnePass ==
    \A u \in JobUsers :
        (jobs.user[u].burst /\ jobs.user[u].passes >= 1) =>
            /\ jobs.user[u].passes = 1
            /\ jobs.user[u].started >= jobs.user[u].ingested + RESPONSE_DELAY

InTd(w, u) == JobIndex(jobs.worker[w].td, u) # {}

\* the job of u is in the table of w and its time has passed
IsDue(w, u) ==
    \E i \in JobIndex(jobs.worker[w].td, u) : jobs.worker[w].td[i].due < now

\* C24 (as claimed): while the worker keeps iterating, every job of its
\* table whose due time has passed is eventually run: generate_response is
\* called for it by the worker.
C24_DueJobIsRun ==
    \A w \in Workers, u \in JobUsers :
        IsDue(w, u) ~> (u \in jobs.worker[w].ran \/ ~ InTd(w, u))

\* C31 (as claimed): after context_build( truncate = True ) and a
\* context_update on the same handler, case_context holds at most
\* MAX_CONTEXT_LEN messages and is in ascending order of
\* ( time_created, time_received ).
C31_ContextStaysBoundedAndSorted ==
    (arg.stage = "updated" /\ arg.truncate) =>
        /\ Len(ret) <= MAX_CONTEXT_LEN
        /\ \A i, j \in 1..Len(ret) : i < j => KeyLE(ret[i], ret[j])

\* C40 (as claimed): while the worker keeps iterating, a due job whose
\* handler does not raise is eventually run and removed from the table,
\* also when the handler of another due job raises every time.
C40_OtherDueJobsAreRemoved ==
    \A w \in Workers, u \in JobUsers :
        (IsDue(w, u) /\ u \notin jobs.broken) ~>
            (~ InTd(w, u) \/ u \in jobs.broken)

\* C37: in every reachable state, the states between the object-store
\* writes of case_open_new included, a non-null open_case_id of the case
\* index names a case whose manifest is stored, and the case that
\* case_decide is about to load has a stored manifest.
C37_IndexedCaseHasManifest ==
    /\ index \notin {NoIndex, NullCase} => index \in DOMAIN manifests
    /\ \A h \in Handlers :
          pc[h] = "cd_load" => hs[h].storage_case_id \in DOMAIN manifests

\* case_open_new has written the manifest of a new case and not yet the
\* index, which still names an older case
C37_Witness ==
    \E h \in Handlers :
        /\ pc[h] = "on_index"
        /\ hs[h].storage_case_id \in DOMAIN manifests
        /\ index \notin {NoIndex, NullCase}
        /\ index # hs[h].storage_case_id

(* ================== further properties of the lock =================== *)

\* the lease that contender h deletes in the cleanup step, if it is stored
Evicted(h) == {o \in leases : o.key = lock[h].victim}

\* C32 (as claimed): a contender deletes a lease in the cleanup step only if
\* the lease has the least LastModified under the prefix and is older than
\* ttl + 1 seconds, and never the lease of another contender that has been
\* inside its critical section for less than ttl seconds.
C32_OnlyStaleEarliestEvicted ==
    [][\A h \in Handlers :
          LockEnterEvict(h) =>
              /\ \A o \in Evicted(h) :
                    /\ \A p \in leases : o.lm <= p.lm
                    /\ now - o.lm > TTL + 1
              /\ \A g \in Handlers \ {h} :
                    (lock[g].inside /\ lock[g].key = lock[h].victim) =>
                        now - lock[g].entered >= TTL]_vars

\* C32 (amended): a contender deletes a lease in the cleanup step only if
\* the lease has the least LastModified under the prefix and is older than
\* ttl + 1 seconds, the age counted from the write of the lease: the lease
\* of another contender is never deleted within ttl + 1 seconds of its write.
C32_OnlyOldEarliestEvicted ==
    [][\A h \in Handlers :
          LockEnterEvict(h) =>
              /\ \A o \in Evicted(h) :
                    /\ \A p \in leases : o.lm <= p.lm
                    /\ now - o.lm > TTL + 1
              /\ \A g \in Handlers \ {h} :
                    lock[g].key = lock[h].victim => LeaseAge(g) > TTL + 1]_vars

\* a contender is about to delete the lease of a holder that is inside
C32_Witness ==
    \E h, g \in Handlers :
        /\ h # g
        /\ pc[h] = "lk_evict"
        /\ lock[g].inside
        /\ lock[g].key = lock[h].victim
        /\ Evicted(h) # {}

\* contender h is in the loop of __enter__
Entering(h) == pc[h] \in {"lk_list", "lk_evict", "lk_relist"}

\* C33: __enter__ leaves its loop, whatever the other contenders do: a
\* contender that polls (and started early enough for the clock to pass
\* its timeout) eventually is inside its critical section or has raised, and
\* it raises TimeoutError only more than `timeout` seconds after it started.
C33_EnterTerminates ==
    /\ \A h \in Handlers :
          (Entering(h) /\ lock[h].start + LOCK_TIMEOUT + TickStep <= MaxTime)
              ~> (lock[h].inside \/ pc[h] = "raised")
    /\ [][\A h \in Handlers :
            (Entering(h) /\ pc'[h] = "raised") =>
                now - lock[h].start > LOCK_TIMEOUT]_vars

\* a contender has raised TimeoutError behind a holder that is still inside
C33_Witness ==
    \E h, g \in Handlers :
        /\ h # g
        /\ pc[h] = "raised"
        /\ lock[h].exc = "TimeoutError"
        /\ lock[g].inside
        /\ lock[h].start + LOCK_TIMEOUT + TickStep <= MaxTime

\* C34: a dedup_and_ingest_message that ends with the TimeoutError of the
\* user lock has written nothing: no manifest and no index was put by the
\* call that failed.
C34_TimedOutIngestWroteNothing ==
    [][\A h \in Handlers :
          (CallRaise(h) /\ lock[h].exc = "TimeoutError" /\ hs[h].msg # NoMsg)
              => ~ hs[h].wrote]_vars

\* C38: a dedup_and_ingest_message for an inbound message without mappable
\* content (a reaction) returns without a step that changes the object store:
\* no manifest, index, message or dedup object is written during the call.
C38_UnmappableLeavesStore ==
    [][\A h \in Handlers :
          (hs[h].wa # NoWa /\ UserMsgOf(hs[h].wa) = NoMsg /\ pc[h] # pc'[h])
              => store' = store]_vars

\* the media object stored for the persisted message of inbound message wa
MediaStored(wa) ==
    \A k \in DOMAIN messages :
        messages[k].idempotency_key = wa.id =>
            /\ <<k[1], messages[k].media.name>> \in DOMAIN media
            /\ media[<<k[1], messages[k].media.name>>] = messages[k].media.sha256

\* C39: when a redelivered media message is dropped by the dedup check while no
\* other call is in progress (so that no retry will store anything), the bytes
\* of its persisted message are stored at cases/<c>/media/<media.name>.
C39_DeduplicatedMediaIsStored ==
    [][\A h \in Handlers, wa \in InboundMsgs :
          ( /\ wa.kind = "media"
            /\ \A g \in Handlers : pc[g] = "idle"
            /\ DedupExists(wa.id)
            /\ IngestDedup(h, wa) )
              => MediaStored(wa)]_vars

\* C35: once stop() has set the stop flag of a worker, serve_forever returns:
\* the iteration in progress ends, the loop test that follows it leaves the
\* loop, and a worker that has left claims no payload and starts no job.
C35_StopEndsServeForever ==
    /\ \A w \in Workers :
          jobs.worker[w].stop ~> (jobs.worker[w].pc = "stopped")
    /\ [][\A w \in Workers :
            /\ (jobs.worker[w].stop /\ jobs.worker[w].pc = "sleep")
                   => jobs'.worker[w].pc \in {"sleep", "stopped"}
            /\ jobs.worker[w].pc = "stopped"
                   => jobs'.worker[w] = jobs.worker[w]]_vars

\* a worker has left the loop after a response pass, with a job still in
\* its table
C35_Witness ==
    \E w \in Workers :
        /\ jobs.worker[w].pc = "stopped"
        /\ jobs.worker[w].td # <<>>
        /\ jobs.worker[w].ran # {}

\* the request messages seg are what the transcript entry e is to yield
Yields(seg, e) ==
    /\ Len(seg) >= 1
    /\ IF e.basemodel = "ToolResultsMsg"
       THEN /\ Len(seg) = Len(e.tool_results)
            /\ \A i \in 1..Len(seg) :
                  seg[i].role = "tool" /\ seg[i].tool_call_id = e.tool_results[i]
       ELSE /\ seg[1].role = RoleOf(e)
            /\ IF e.basemodel = "AssistantMsg" /\ e.tool_calls # <<>>
               THEN /\ Len(seg) = 2
                    /\ seg[2].role = "assistant"
                    /\ seg[2].tool_calls = e.tool_calls
               ELSE Len(seg) = 1

RECURSIVE Covers(_, _)

\* msgs splits, in order, into one non-empty run per entry of context
Covers(msgs, context) ==
    IF context = <<>> THEN msgs = <<>>
    ELSE \E k \in 1..Len(msgs) :
            /\ Yields(SubSeq(msgs, 1, k), Head(context))
            /\ Covers(SubSeq(msgs, k + 1, Len(msgs)), Tail(context))

\* C36: the request of call_openai_chat_completion holds, after the system
\* message and in transcript order, at least one message for every
\* transcript entry: one with the entry's role, one more assistant message
\* with all tool calls, and one tool message per tool result.
C36_EveryEntryIsSent ==
    arg.applied =>
        /\ arg.prompts => (ret # <<>> /\ ret[1] = SystemRequest)
        /\ Covers(IF arg.prompts THEN Tail(ret) ELSE ret, arg.context)

====
